---- MODULE Spec2Model ----
(***************************************************************************)
(* A model of laspy's record schema (util.Format / util.Spec), record      *)
(* codec (util.Point) and header accessor layer (header.Header).           *)
(*                                                                         *)
(* A Format is built field by field (one add step per self.add call of    *)
(* Format.__init__), then closed by the lookup/packer construction.  On a  *)
(* built Format a Point is created from a value list or from a byte        *)
(* string, expanded (make_nice), modified by attribute assignment and      *)
(* packed; a Header is constructed over it and its read accessors called.  *)
(***************************************************************************)
EXTENDS Integers, Sequences, FiniteSets, TLC

VARIABLES
    pc,           \* position of Format.__init__: "new", "adding", "built", "failed"
    fmt,          \* Format.fmt, the identifier given to the constructor
    overwritable, \* the overwritable argument of Format.__init__
    specs,        \* Format.specs
    rec_len,      \* Format.rec_len
    pt_fmt_long,  \* Format.pt_fmt_long
    lookup,       \* Format.lookup (a function from field name to Spec)
    packer,       \* Format.packer: the format string the Struct was built from
    fmt_exc,      \* the exception Format.__init__ raised, or "none"
    stage,        \* which Point exists: "none", "enc" (built from a list), "dec" (from
                  \* bytes); "enc_failed", "dec_failed" when its constructor raised
    pt_op,        \* the last Point operation: "none", "__init__", "make_nice", "setattr", "pack"
    unpacked,     \* Point.unpacked
    attrs,        \* the named attributes of the Point's __dict__ (field names, bit sub-fields)
    pt_exc,       \* the exception the last Point operation raised, or "none"
    packed,       \* the byte string the last pack() returned
    has_packed,   \* pack() has returned since the Point last changed
    orig,         \* the value list the encoding Point was built from
    nassign,      \* attribute assignments made on the current Point
    nbytes,       \* len(bytestr) of the byte block the Point was built from, -1 without one
    hstage,       \* the Header: "none", "built" (__init__ returned), "failed" (it raised)
    file,         \* the header field values the reader's file holds, by field name
    hdr,          \* the Header instance's __dict__
    hres,         \* the last Header accessor call: [op, exc, val]
    harg          \* the argument of the last Header write accessor call

fmt_vars == <<pc, fmt, overwritable, specs, rec_len, pt_fmt_long, lookup, packer, fmt_exc>>

pt_vars == <<stage, pt_op, unpacked, attrs, pt_exc, packed, has_packed, orig, nassign, nbytes>>

hdr_vars == <<hstage, file, hdr, hres, harg>>

vars == <<fmt_vars, pt_vars, hdr_vars>>

(***************************************************************************)
(* util.py module tables.                                                  *)
(***************************************************************************)
CTypes == {"c_long", "c_ushort", "c_ubyte", "c_float", "c_char", "c_double", "c_ulonglong"}

\* fmtLen with the platform's own size of a C long (8 bytes on LP64)
fmtLen_LP64(f) ==
    CASE f = "<L" -> 8
      [] f = "<H" -> 2
      [] f = "<B" -> 1
      [] f = "<f" -> 4
      [] f = "<s" -> 1
      [] f = "<d" -> 8
      [] f = "<Q" -> 8

fmtLen(f) ==
    CASE f = "<L" -> 4
      [] f = "<H" -> 2
      [] f = "<B" -> 1
      [] f = "<f" -> 4
      [] f = "<s" -> 1
      [] f = "<d" -> 8
      [] f = "<Q" -> 8

LEfmt(c) ==
    CASE c = "c_long" -> "<L"
      [] c = "c_ushort" -> "<H"
      [] c = "c_ubyte" -> "<B"
      [] c = "c_float" -> "<f"
      [] c = "c_char" -> "<s"
      [] c = "c_double" -> "<d"
      [] c = "c_ulonglong" -> "<Q"

npFmt(f) ==
    CASE f = "<L" -> "i4"
      [] f = "<H" -> "u2"
      [] f = "<B" -> "u1"
      [] f = "<f" -> "f4"
      [] f = "<s" -> "s1"
      [] f = "<d" -> "f8"
      [] f = "<Q" -> "u8"

\* defaults: the Python value is tagged with its Python type; "<B" maps to the
\* one-character str "0", "<s" to the str " ".
defaults(f) ==
    CASE f = "<L" -> [type |-> "int", val |-> "0"]
      [] f = "<H" -> [type |-> "int", val |-> "0"]
      [] f = "<B" -> [type |-> "str", val |-> "0"]
      [] f = "<f" -> [type |-> "float", val |-> "0.0"]
      [] f = "<s" -> [type |-> "str", val |-> " "]
      [] f = "<d" -> [type |-> "float", val |-> "0.0"]
      [] f = "<Q" -> [type |-> "int", val |-> "0"]

(***************************************************************************)
(* Spec.__init__.  The default is x*num: the value itself when num = 1,    *)
(* a str repeated num times for a str default, else a list of num copies.  *)
(***************************************************************************)
RECURSIVE Repeat(_, _)
Repeat(s, n) == IF n <= 0 THEN "" ELSE s \o Repeat(s, n - 1)

SpecDefault(f, num) ==
    LET d == defaults(f) IN
    IF num = 1 \/ d.type = "str"
    THEN IF d.type = "str"
         THEN [type |-> "str", val |-> Repeat(d.val, num), n |-> num]
         ELSE [type |-> d.type, val |-> d.val, n |-> 1]
    ELSE [type |-> "list_" \o d.type, val |-> d.val, n |-> num]

Spec_init(name, offs, ctype, num, pack, overw, idx) ==
    [ name |-> name,
      offs |-> offs,
      Format |-> ctype,
      fmt |-> LEfmt(ctype),
      length |-> fmtLen(LEfmt(ctype)),
      num |-> num,
      pack |-> pack,
      np_fmt |-> npFmt(LEfmt(ctype)),
      default |-> SpecDefault(LEfmt(ctype), num),
      overwritable |-> overw,
      idx |-> idx ]

\* The attributes a Spec instance carries (assigned in Spec.__init__).
SpecAttrNames ==
    {"name", "offs", "Format", "fmt", "length", "num", "pack", "np_fmt",
     "default", "overwritable", "idx"}

(***************************************************************************)
(* Format.__init__: the add calls it makes, in order, for an identifier.   *)
(* A(...) is one call self.add(name, fmt, num, pack, overwritable) with    *)
(* add's defaults pack = False, overwritable = True.                       *)
(***************************************************************************)
FormatIds == {"0", "1", "2", "3", "4", "5", "VLR", "h1.0", "h1.1", "h1.2", "h1.3"}
PointIds == {"0", "1", "2", "3", "4", "5"}
HeaderIds == {"h1.0", "h1.1", "h1.2", "h1.3"}

A(name, ctype, num) ==
    [name |-> name, fmt |-> ctype, num |-> num, pack |-> FALSE, overwritable |-> TRUE]
AP(name, ctype, num) ==
    [name |-> name, fmt |-> ctype, num |-> num, pack |-> TRUE, overwritable |-> TRUE]
AO(name, ctype, num, pack, ow) ==
    [name |-> name, fmt |-> ctype, num |-> num, pack |-> pack, overwritable |-> ow]

PointFields ==
    << A("X", "c_long", 1), A("Y", "c_long", 1), A("Z", "c_long", 1),
       A("intensity", "c_ushort", 1), A("flag_byte", "c_ubyte", 1),
       A("raw_classification", "c_ubyte", 1), A("scan_angle_rank", "c_ubyte", 1),
       A("user_data", "c_ubyte", 1), A("pt_src_id", "c_ushort", 1) >>

GpsFields == << A("gps_time", "c_double", 1) >>

ColorFields ==
    << A("red", "c_ushort", 1), A("green", "c_ushort", 1), A("blue", "c_ushort", 1) >>

WaveFields ==
    << A("wave_packet_descp_idx", "c_ubyte", 1),
       A("byte_offset_to_wavefm_data", "c_ulonglong", 1),
       A("wavefm_pkt_size", "c_long", 1),
       A("return_pt_wavefm_loc", "c_float", 1),
       A("x_t", "c_float", 1), A("y_t", "c_float", 1), A("z_t", "c_float", 1) >>

VLRFields ==
    << A("reserved", "c_ushort", 1), A("user_id", "c_char", 16),
       A("record_id", "c_ushort", 1), A("rec_len_after_header", "c_ushort", 1),
       AP("description", "c_char", 32) >>

HeaderFields(ow) ==
    << AO("file_sig", "c_char", 4, TRUE, ow),
       A("file_src", "c_ushort", 1), A("global_encoding", "c_ushort", 1),
       A("proj_id_1", "c_long", 1), A("proj_id_2", "c_ushort", 1),
       A("proj_id_3", "c_ushort", 1), A("proj_id_4", "c_ubyte", 8),
       AO("version_major", "c_ubyte", 1, FALSE, ow),
       AO("version_minor", "c_ubyte", 1, FALSE, ow),
       AP("sys_id", "c_char", 32), AP("gen_soft", "c_char", 32),
       A("created_day", "c_ushort", 1), A("created_year", "c_ushort", 1),
       AO("header_size", "c_ushort", 1, FALSE, ow),
       A("offset_to_point_data", "c_long", 1),
       A("num_variable_len_recs", "c_long", 1),
       AO("pt_dat_format_id", "c_ubyte", 1, FALSE, ow),
       A("pt_dat_rec_len", "c_ushort", 1), A("num_pt_recs", "c_long", 1) >>

\* the tail with the extent fields stored min before max
HeaderTail_min_before_max ==
    << A("x_scale", "c_double", 1), A("y_scale", "c_double", 1), A("z_scale", "c_double", 1),
       A("x_offset", "c_double", 1), A("y_offset", "c_double", 1), A("z_offset", "c_double", 1),
       A("x_min", "c_double", 1), A("x_max", "c_double", 1),
       A("y_min", "c_double", 1), A("y_max", "c_double", 1),
       A("z_min", "c_double", 1), A("z_max", "c_double", 1) >>

HeaderTail ==
    << A("x_scale", "c_double", 1), A("y_scale", "c_double", 1), A("z_scale", "c_double", 1),
       A("x_offset", "c_double", 1), A("y_offset", "c_double", 1), A("z_offset", "c_double", 1),
       A("x_max", "c_double", 1), A("x_min", "c_double", 1),
       A("y_max", "c_double", 1), A("y_min", "c_double", 1),
       A("z_max", "c_double", 1), A("z_min", "c_double", 1) >>

HeaderTail13 == << A("num_pts_by_return", "c_long", 7) >> \o HeaderTail

HeaderTail10 == << A("num_pts_by_return", "c_long", 5) >> \o HeaderTail

\* Format.__init__ with "5" missing from the gps_time test
AddCalls_no_gps_in_5(f, ow) ==
    (IF f \in {"0", "1", "2", "3", "4", "5"} THEN PointFields ELSE << >>)
    \o (IF f \in {"1", "3", "4"} THEN GpsFields ELSE << >>)
    \o (IF f \in {"3", "5"} THEN ColorFields
        ELSE IF f = "2" THEN ColorFields ELSE << >>)
    \o (IF f = "4" THEN WaveFields
        ELSE IF f = "5" THEN WaveFields ELSE << >>)
    \o (IF f = "VLR" THEN VLRFields ELSE << >>)
    \o (IF SubSeq(f, 1, 1) = "h"
        THEN HeaderFields(ow)
             \o (IF f = "h1.3" THEN HeaderTail13
                 ELSE IF f \in {"h1.0", "h1.1", "h1.2"} THEN HeaderTail10 ELSE << >>)
        ELSE << >>)

AddCalls(f, ow) ==
    (IF f \in {"0", "1", "2", "3", "4", "5"} THEN PointFields ELSE << >>)
    \o (IF f \in {"1", "3", "4", "5"} THEN GpsFields ELSE << >>)
    \o (IF f \in {"3", "5"} THEN ColorFields
        ELSE IF f = "2" THEN ColorFields ELSE << >>)
    \o (IF f = "4" THEN WaveFields
        ELSE IF f = "5" THEN WaveFields ELSE << >>)
    \o (IF f = "VLR" THEN VLRFields ELSE << >>)
    \o (IF SubSeq(f, 1, 1) = "h"
        THEN HeaderFields(ow)
             \o (IF f = "h1.3" THEN HeaderTail13
                 ELSE IF f \in {"h1.0", "h1.1", "h1.2"} THEN HeaderTail10 ELSE << >>)
        ELSE << >>)

\* Format.format_type, set once construction has entered a branch.
format_type(f) ==
    IF f \in PointIds THEN "point format = " \o f
    ELSE IF f = "VLR" THEN "VLR"
    ELSE "header version = " \o SubSeq(f, 2, Len(f))

(***************************************************************************)
(* Format.add: the three things one call computes.                         *)
(***************************************************************************)
\* add with the element count left out of the previous field's extent
add_offs_one_element(ss) ==
    IF Len(ss) = 0 THEN 0
    ELSE LET last == ss[Len(ss)] IN last.offs + fmtLen(last.fmt)

add_offs(ss) ==
    IF Len(ss) = 0 THEN 0
    ELSE LET last == ss[Len(ss)] IN last.offs + last.num * fmtLen(last.fmt)

add_rec_len(rl, ctype, num) == rl + num * fmtLen(LEfmt(ctype))

add_pt_fmt_long(pfl, ctype) == pfl \o SubSeq(LEfmt(ctype), 2, 2)

add_specs(ss, a) ==
    Append(ss, Spec_init(a.name, add_offs(ss), a.fmt, a.num, a.pack, a.overwritable, Len(ss)))

\* The lookup loop at the end of Format.__init__: later names overwrite earlier.
build_lookup(ss) ==
    [n \in {ss[i].name : i \in 1..Len(ss)} |->
        ss[CHOOSE i \in 1..Len(ss) :
              /\ ss[i].name = n
              /\ \A j \in 1..Len(ss) : ss[j].name = n => j <= i]]

\* The attributes a Format instance carries once __init__ has returned.
FormatAttrNames ==
    {"fmt", "_etree", "specs", "rec_len", "pt_fmt_long", "format_type", "lookup", "packer"}

(***************************************************************************)
(* Format construction actions.                                            *)
(***************************************************************************)
InputIds == FormatIds \cup {"9", "6", "h1.4", "vlr"}

PtInit ==
    /\ stage = "none"
    /\ pt_op = "none"
    /\ unpacked = << >>
    /\ attrs = << >>
    /\ pt_exc = "none"
    /\ packed = << >>
    /\ has_packed = FALSE
    /\ orig = << >>
    /\ nassign = 0
    /\ nbytes = -1

FmtInit ==
    /\ pc = "new"
    /\ fmt \in InputIds
    /\ overwritable \in (IF fmt \in HeaderIds THEN BOOLEAN ELSE {FALSE})
    /\ specs = << >>
    /\ rec_len = 0
    /\ pt_fmt_long = ""
    /\ lookup = << >>
    /\ packer = ""
    /\ fmt_exc = "none"

\* Format.__init__ without the identifier check of lines 77-78
Format_init_no_check ==
    /\ pc = "new"
    /\ specs' = << >>
    /\ rec_len' = 0
    /\ pt_fmt_long' = "<"
    /\ pc' = "adding"
    /\ fmt_exc' = "none"
    /\ UNCHANGED <<fmt, overwritable, lookup, packer, pt_vars, hdr_vars>>

\* Format.__init__ up to and including the identifier check.
Format_init ==
    /\ pc = "new"
    /\ specs' = << >>
    /\ rec_len' = 0
    /\ pt_fmt_long' = "<"
    /\ IF fmt \in FormatIds
       THEN pc' = "adding" /\ fmt_exc' = "none"
       ELSE pc' = "failed" /\ fmt_exc' = "LaspyException"
    /\ UNCHANGED <<fmt, overwritable, lookup, packer, pt_vars, hdr_vars>>

\* One self.add(...) call of Format.__init__: the next one in program order.
add ==
    /\ pc = "adding"
    /\ Len(specs) < Len(AddCalls(fmt, overwritable))
    /\ LET a == AddCalls(fmt, overwritable)[Len(specs) + 1] IN
          /\ rec_len' = add_rec_len(rec_len, a.fmt, a.num)
          /\ specs' = add_specs(specs, a)
          /\ pt_fmt_long' = add_pt_fmt_long(pt_fmt_long, a.fmt)
    /\ UNCHANGED <<pc, fmt, overwritable, lookup, packer, fmt_exc, pt_vars, hdr_vars>>

\* The end of Format.__init__: lookup and packer.
Format_finish ==
    /\ pc = "adding"
    /\ Len(specs) = Len(AddCalls(fmt, overwritable))
    /\ lookup' = build_lookup(specs)
    /\ packer' = pt_fmt_long
    /\ pc' = "built"
    /\ UNCHANGED <<fmt, overwritable, specs, rec_len, pt_fmt_long, fmt_exc, pt_vars, hdr_vars>>

\* add calls a client makes on a Format that __init__ has returned
MaxExtra == 1

\* the arguments of such a call: a one-byte or an eight-byte element type,
\* with a negative, zero, unit or multiple count
ExtraCalls ==
    {A("extra", ctype, num) : ctype \in {"c_ubyte", "c_double"}, num \in {-1, 0, 1, 2}}

\* fmt.add(name, ctype, num) on the built Format: add is a public method and
\* touches specs, rec_len and pt_fmt_long, not lookup or packer
Format_add ==
    /\ pc = "built"
    /\ stage = "none"
    /\ hstage = "none"
    /\ Len(specs) < Len(AddCalls(fmt, overwritable)) + MaxExtra
    /\ \E a \in ExtraCalls :
          /\ rec_len' = add_rec_len(rec_len, a.fmt, a.num)
          /\ specs' = add_specs(specs, a)
          /\ pt_fmt_long' = add_pt_fmt_long(pt_fmt_long, a.fmt)
    /\ UNCHANGED <<pc, fmt, overwritable, lookup, packer, fmt_exc, pt_vars, hdr_vars>>

(***************************************************************************)
(* struct.Struct(pt_fmt_long): Python's standard-size little-endian        *)
(* packing, one item per format character (no repeat counts are ever       *)
(* written into pt_fmt_long).                                              *)
(*                                                                         *)
(* Values: an unsigned integer is a natural number; a char array (bytes)   *)
(* is a sequence of byte values; a Python float is its IEEE-754 binary64   *)
(* representation [s, e, hi, lo]: sign, 11-bit biased exponent, and the    *)
(* 52-bit fraction split into its high 23 bits and its low 29 bits.        *)
(***************************************************************************)
RECURSIVE Pow2(_)
Pow2(n) == IF n <= 0 THEN 1 ELSE 2 * Pow2(n - 1)

StructCodes(p) == [i \in 1..(Len(p) - 1) |-> SubSeq(p, i + 1, i + 1)]

StructItemSize(c) ==
    CASE c = "L" -> 4
      [] c = "H" -> 2
      [] c = "B" -> 1
      [] c = "f" -> 4
      [] c = "s" -> 1
      [] c = "d" -> 8
      [] c = "Q" -> 8

RECURSIVE SumSizes(_, _)
SumSizes(codes, i) ==
    IF i > Len(codes) THEN 0 ELSE StructItemSize(codes[i]) + SumSizes(codes, i + 1)

\* Struct.size
StructSize(p) == SumSizes(StructCodes(p), 1)

RECURSIVE LEBytes(_, _)
LEBytes(v, n) == IF n = 0 THEN << >> ELSE << v % 256 >> \o LEBytes(v \div 256, n - 1)

RECURSIVE ShiftOut(_, _)
ShiftOut(v, n) == IF n = 0 THEN v ELSE ShiftOut(v \div 256, n - 1)

\* an unsigned integer fits n bytes
FitsBytes(v, n) == v >= 0 /\ ShiftOut(v, n) = 0

RECURSIVE LEValue(_, _)
LEValue(b, i) == IF i > Len(b) THEN 0 ELSE b[i] + 256 * LEValue(b, i + 1)

DoubleBytes(d) ==
    << d.lo % 256,
       (d.lo \div 256) % 256,
       (d.lo \div 65536) % 256,
       (d.lo \div 16777216) + (d.hi % 8) * 32,
       (d.hi \div 8) % 256,
       (d.hi \div 2048) % 256,
       (d.hi \div 524288) + (d.e % 16) * 16,
       (d.e \div 16) + d.s * 128 >>

BytesDouble(b) ==
    [ s |-> b[8] \div 128,
      e |-> (b[8] % 128) * 16 + (b[7] \div 16),
      hi |-> (b[7] % 16) * 524288 + b[6] * 2048 + b[5] * 8 + (b[4] \div 32),
      lo |-> (b[4] % 32) * 16777216 + b[3] * 65536 + b[2] * 256 + b[1] ]

\* binary32 as [s, e, frac]: sign, 8-bit biased exponent, 23-bit fraction
FloatBytes(f) ==
    << f.frac % 256,
       (f.frac \div 256) % 256,
       (f.frac \div 65536) + (f.e % 2) * 128,
       (f.e \div 2) + f.s * 128 >>

BytesFloat(b) ==
    [ s |-> b[4] \div 128,
      e |-> (b[4] % 128) * 2 + (b[3] \div 128),
      frac |-> (b[3] % 128) * 65536 + b[2] * 256 + b[1] ]

\* The C conversion (float)x of a binary64, round to nearest, ties to even.
\* ovf marks a finite binary64 whose conversion is infinite.
DoubleToFloat(d) ==
    IF d.e = 2047
    THEN [s |-> d.s, e |-> 255,
          frac |-> IF d.hi = 0 /\ d.lo # 0 THEN 4194304 ELSE d.hi, ovf |-> FALSE]
    ELSE IF d.e = 0
    THEN [s |-> d.s, e |-> 0, frac |-> 0, ovf |-> FALSE]
    ELSE
      LET e8 == d.e - 1023 + 127 IN
      IF e8 >= 1
      THEN LET up == d.lo > 268435456 \/ (d.lo = 268435456 /\ d.hi % 2 = 1)
               f1 == IF up THEN d.hi + 1 ELSE d.hi
               e1 == IF f1 = 8388608 THEN e8 + 1 ELSE e8
               f2 == IF f1 = 8388608 THEN 0 ELSE f1
           IN IF e1 >= 255
              THEN [s |-> d.s, e |-> 255, frac |-> 0, ovf |-> TRUE]
              ELSE [s |-> d.s, e |-> e1, frac |-> f2, ovf |-> FALSE]
      ELSE LET sh == 1 - e8 IN
           IF sh > 25
           THEN [s |-> d.s, e |-> 0, frac |-> 0, ovf |-> FALSE]
           ELSE LET sig == 8388608 + d.hi
                    q == sig \div Pow2(sh)
                    r == sig % Pow2(sh)
                    half == Pow2(sh - 1)
                    up == r > half \/ (r = half /\ (d.lo > 0 \/ q % 2 = 1))
                    f1 == IF up THEN q + 1 ELSE q
                IN IF f1 = 8388608
                   THEN [s |-> d.s, e |-> 1, frac |-> 0, ovf |-> FALSE]
                   ELSE [s |-> d.s, e |-> 0, frac |-> f1, ovf |-> FALSE]

RECURSIVE Normalise(_, _, _)
Normalise(s, e, frac) ==
    IF frac >= 8388608
    THEN [s |-> s, e |-> e, hi |-> frac - 8388608, lo |-> 0]
    ELSE Normalise(s, e - 1, 2 * frac)

\* The C conversion (double)x of a binary32: exact.
FloatToDouble(f) ==
    IF f.e = 255 THEN [s |-> f.s, e |-> 2047, hi |-> f.frac, lo |-> 0]
    ELSE IF f.e = 0
    THEN IF f.frac = 0
         THEN [s |-> f.s, e |-> 0, hi |-> 0, lo |-> 0]
         ELSE Normalise(f.s, 1 - 127 + 1023, f.frac)
    ELSE [s |-> f.s, e |-> f.e - 127 + 1023, hi |-> f.frac, lo |-> 0]

\* One item of Struct.pack: [exc, bytes].
PackItem(c, v) ==
    CASE c \in {"L", "H", "B", "Q"} ->
           IF FitsBytes(v, StructItemSize(c))
           THEN [exc |-> "none", bytes |-> LEBytes(v, StructItemSize(c))]
           ELSE [exc |-> "struct.error", bytes |-> << >>]
      [] c = "s" ->
           [exc |-> "none", bytes |-> << IF Len(v) = 0 THEN 0 ELSE v[1] >>]
      [] c = "d" -> [exc |-> "none", bytes |-> DoubleBytes(v)]
      [] c = "f" ->
           LET f == DoubleToFloat(v) IN
           IF f.ovf THEN [exc |-> "OverflowError", bytes |-> << >>]
           ELSE [exc |-> "none", bytes |-> FloatBytes(f)]

RECURSIVE PackFrom(_, _, _)
PackFrom(codes, values, i) ==
    IF i > Len(codes) THEN [exc |-> "none", bytes |-> << >>]
    ELSE LET one == PackItem(codes[i], values[i]) IN
         IF one.exc # "none" THEN one
         ELSE LET rest == PackFrom(codes, values, i + 1) IN
              IF rest.exc # "none" THEN rest
              ELSE [exc |-> "none", bytes |-> one.bytes \o rest.bytes]

\* Struct.pack(*values)
StructPack(p, values) ==
    IF Len(values) # Len(StructCodes(p))
    THEN [exc |-> "struct.error", bytes |-> << >>]
    ELSE PackFrom(StructCodes(p), values, 1)

UnpackItem(c, b) ==
    CASE c \in {"L", "H", "B", "Q"} -> LEValue(b, 1)
      [] c = "s" -> b
      [] c = "d" -> BytesDouble(b)
      [] c = "f" -> FloatToDouble(BytesFloat(b))

RECURSIVE UnpackFrom(_, _, _, _)
UnpackFrom(codes, b, i, at) ==
    IF i > Len(codes) THEN << >>
    ELSE << UnpackItem(codes[i], SubSeq(b, at + 1, at + StructItemSize(codes[i]))) >>
         \o UnpackFrom(codes, b, i + 1, at + StructItemSize(codes[i]))

\* Struct.unpack(bytestr): [exc, values]
StructUnpack(p, b) ==
    IF Len(b) # StructSize(p)
    THEN [exc |-> "struct.error", values |-> << >>]
    ELSE [exc |-> "none", values |-> UnpackFrom(StructCodes(p), b, 1, 0)]

(***************************************************************************)
(* The reader's bit-string helpers used by Point.make_nice.  binary_str    *)
(* gives the eight bits of a byte, least-significant bit first, and        *)
(* packed_str reads such a bit string back as a number, so that            *)
(* packed_str(binary_str(b)[low : low + width]) = (b >> low) & (2^width-1).*)
(***************************************************************************)
binary_str(N) == [i \in 1..8 |-> (N \div Pow2(i - 1)) % 2]

RECURSIVE packed_str_from(_, _)
packed_str_from(bits, i) ==
    IF i > Len(bits) THEN 0 ELSE bits[i] * Pow2(i - 1) + packed_str_from(bits, i + 1)

packed_str(bits) == packed_str_from(bits, 1)

\* Python's s[a:b] and s[i] on a string or list
PySlice(s, a, b) == SubSeq(s, a + 1, b)
PyIndex(s, i) == SubSeq(s, i + 1, i + 1)

(***************************************************************************)
(* Point.make_nice.                                                        *)
(***************************************************************************)
\* the naming loop: i-th field name := unpacked[i]; stops with IndexError at
\* the first field that has no value, keeping what it assigned before
RECURSIVE assign_names(_, _, _, _)
assign_names(at, ss, unp, i) ==
    IF i > Len(ss) THEN [exc |-> "none", attrs |-> at]
    ELSE IF i > Len(unp) THEN [exc |-> "IndexError", attrs |-> at]
    ELSE assign_names((ss[i].name :> unp[i]) @@ at, ss, unp, i + 1)

\* make_nice with the number-of-returns slice one bit short (bstr[3:5])
flag_byte_fields_short_slice(bstr) ==
    ("return_num" :> packed_str(PySlice(bstr, 0, 3)))
    @@ ("num_returns" :> packed_str(PySlice(bstr, 3, 5)))
    @@ ("scan_dir_flag" :> packed_str(PyIndex(bstr, 6)))
    @@ ("edge_flight_line" :> packed_str(PyIndex(bstr, 7)))

flag_byte_fields(bstr) ==
    ("return_num" :> packed_str(PySlice(bstr, 0, 3)))
    @@ ("num_returns" :> packed_str(PySlice(bstr, 3, 6)))
    @@ ("scan_dir_flag" :> packed_str(PyIndex(bstr, 6)))
    @@ ("edge_flight_line" :> packed_str(PyIndex(bstr, 7)))

\* make_nice with the synthetic and key_point bits exchanged
raw_classification_fields_swapped(bstr) ==
    ("classification" :> packed_str(PySlice(bstr, 0, 5)))
    @@ ("synthetic" :> packed_str(PyIndex(bstr, 6)))
    @@ ("key_point" :> packed_str(PyIndex(bstr, 5)))
    @@ ("withheld" :> packed_str(PyIndex(bstr, 7)))

raw_classification_fields(bstr) ==
    ("classification" :> packed_str(PySlice(bstr, 0, 5)))
    @@ ("synthetic" :> packed_str(PyIndex(bstr, 5)))
    @@ ("key_point" :> packed_str(PyIndex(bstr, 6)))
    @@ ("withheld" :> packed_str(PyIndex(bstr, 7)))

make_nice_result(at, ss, unp) ==
    LET named == assign_names(at, ss, unp, 1) IN
    IF named.exc # "none" THEN named
    ELSE IF "flag_byte" \notin DOMAIN named.attrs
    THEN [exc |-> "AttributeError", attrs |-> named.attrs]
    ELSE LET a1 == flag_byte_fields(binary_str(named.attrs["flag_byte"])) @@ named.attrs IN
         IF "raw_classification" \notin DOMAIN a1
         THEN [exc |-> "AttributeError", attrs |-> a1]
         ELSE [exc |-> "none",
               attrs |-> raw_classification_fields(binary_str(a1["raw_classification"])) @@ a1]

SubFieldNames ==
    {"return_num", "num_returns", "scan_dir_flag", "edge_flight_line",
     "classification", "synthetic", "key_point", "withheld"}

\* make_nice has run to its end on the current Point
Expanded == SubFieldNames \subseteq DOMAIN attrs

(***************************************************************************)
(* Input values.                                                           *)
(***************************************************************************)
D_zero == [s |-> 0, e |-> 0, hi |-> 0, lo |-> 0]                   \* 0.0
D_one == [s |-> 0, e |-> 1023, hi |-> 0, lo |-> 0]                 \* 1.0
D_tenth == [s |-> 0, e |-> 1019, hi |-> 5033164, lo |-> 429496730] \* 0.1
D_neg == [s |-> 1, e |-> 1024, hi |-> 2097152, lo |-> 0]           \* -2.5
D_big == [s |-> 0, e |-> 2023, hi |-> 0, lo |-> 0]                 \* 2.0**1000
D_tiny == [s |-> 0, e |-> 883, hi |-> 0, lo |-> 0]                 \* 2.0**-140

ByteValues == 0..255

\* sample values offered for a field; the first is the one used at rest
Samples(sp) ==
    CASE sp.fmt = "<B" ->
           IF sp.name \in {"flag_byte", "raw_classification"} THEN {0, 77, 255} ELSE {0, 255}
      [] sp.fmt = "<H" -> IF sp.name = "intensity" THEN {0, 65535, 65536} ELSE {0, 65535}
      [] sp.fmt = "<L" -> {0, 2147483647}
      [] sp.fmt = "<Q" -> {0, 2147483647}
      [] sp.fmt = "<d" -> {D_zero, D_tenth, D_neg}
      [] sp.fmt = "<f" -> {D_zero, D_one, D_tenth, D_neg, D_big, D_tiny}
      [] sp.fmt = "<s" -> {<<32>>, <<97>>, <<97, 98>>}

RestValue(sp) ==
    CASE sp.fmt \in {"<B", "<H", "<L", "<Q"} -> 0
      [] sp.fmt \in {"<d", "<f"} -> D_zero
      [] sp.fmt = "<s" -> <<32>>

RestValues(ss) == [i \in 1..Len(ss) |-> RestValue(ss[i])]

NotGiven == [given |-> FALSE, val |-> << >>]
Given(v) == [given |-> TRUE, val |-> v]

(***************************************************************************)
(* Point.__init__(reader, bytestr, unpacked_list, nice) over the built     *)
(* Format as reader.point_format.                                          *)
(***************************************************************************)
Point_init(bytestr, unpacked_list, nice, newstage) ==
    /\ pc = "built"
    /\ hstage = "none"
    /\ LET got == IF bytestr.given
                  THEN StructUnpack(packer, bytestr.val)
                  ELSE IF unpacked_list.given
                  THEN [exc |-> "none", values |-> unpacked_list.val]
                  ELSE [exc |-> "LaspyException", values |-> << >>]
           exp == IF got.exc = "none" /\ nice
                  THEN make_nice_result(<< >>, specs, got.values)
                  ELSE [exc |-> got.exc, attrs |-> << >>]
       IN /\ unpacked' = got.values
          /\ attrs' = exp.attrs
          /\ pt_exc' = exp.exc
          /\ stage' = IF exp.exc = "none" THEN newstage ELSE newstage \o "_failed"
    /\ pt_op' = "__init__"
    /\ orig' = IF unpacked_list.given /\ ~bytestr.given THEN unpacked_list.val ELSE orig
    /\ nassign' = 0
    /\ nbytes' = IF bytestr.given THEN Len(bytestr.val) ELSE -1
    /\ has_packed' = FALSE
    /\ packed' = << >>
    /\ UNCHANGED <<fmt_vars, hdr_vars>>

\* Point(reader, unpacked_list = values): one field varied over its samples
Point_from_list ==
    /\ stage = "none"
    /\ \E k \in 1..Len(specs) : \E v \in Samples(specs[k]) : \E nice \in BOOLEAN :
          Point_init(NotGiven, Given([RestValues(specs) EXCEPT ![k] = v]), nice, "enc")

\* a record of rec_len bytes, zero but for the flag byte and the raw
\* classification byte at their fields' offsets
RecordBytes(flag, class) ==
    [i \in 1..rec_len |->
        IF i = lookup["flag_byte"].offs + 1 THEN flag
        ELSE IF i = lookup["raw_classification"].offs + 1 THEN class
        ELSE 0]

\* Point(reader, bytestr = record, nice = nice) on a point record whose flag
\* byte and raw classification byte are b and 255 - b, in either order
Point_from_record ==
    /\ stage = "none"
    /\ pc = "built"
    /\ fmt \in PointIds
    /\ \E b \in ByteValues : \E swap \in BOOLEAN : \E nice \in BOOLEAN :
          Point_init(Given(IF swap THEN RecordBytes(255 - b, b) ELSE RecordBytes(b, 255 - b)),
                     NotGiven, nice, "dec")

\* lengths of the byte blocks offered for decoding: empty, what the packer
\* consumes, one short of the record length, the record length, one more
BlockLengths == {0, StructSize(packer), rec_len - 1, rec_len, rec_len + 1}

\* Point(reader, bytestr = block) on a block of n zero bytes
Point_from_block ==
    /\ stage = "none"
    /\ pc = "built"
    /\ \E n \in BlockLengths : \E nice \in BOOLEAN :
          Point_init(Given([i \in 1..n |-> 0]), NotGiven, nice, "dec")

\* Point(reader, unpacked_list = values) with one value too few
Point_from_short_list ==
    /\ stage = "none"
    /\ Len(specs) > 0
    /\ \E nice \in BOOLEAN :
          Point_init(NotGiven, Given(SubSeq(RestValues(specs), 1, Len(specs) - 1)), nice, "enc")

\* Point(reader): neither source given
Point_from_nothing ==
    /\ stage = "none"
    /\ Point_init(NotGiven, NotGiven, FALSE, "enc")

\* Point(reader, bytestr = b) on the bytes an earlier pack() returned
Point_from_bytes ==
    /\ stage = "enc"
    /\ has_packed
    /\ \E nice \in BOOLEAN : Point_init(Given(packed), NotGiven, nice, "dec")

\* Point.make_nice() called on the Point
make_nice ==
    /\ stage \in {"enc", "dec"}
    /\ LET r == make_nice_result(attrs, specs, unpacked) IN
          /\ attrs' = r.attrs
          /\ pt_exc' = r.exc
    /\ pt_op' = "make_nice"
    /\ has_packed' = FALSE
    /\ packed' = << >>
    /\ UNCHANGED <<fmt_vars, hdr_vars, stage, unpacked, orig, nassign, nbytes>>

\* the largest value a bit sub-field can hold
SubFieldMax(name) ==
    CASE name \in {"return_num", "num_returns"} -> 7
      [] name = "classification" -> 31
      [] OTHER -> 1

MaxAssign == 1

\* point.<name> = v on an expanded encoding Point, v the next value of the sub-field
SetAttr ==
    /\ stage = "enc"
    /\ Expanded
    /\ nassign < MaxAssign
    /\ \E name \in SubFieldNames :
          attrs' = [attrs EXCEPT ![name] = (attrs[name] + 1) % (SubFieldMax(name) + 1)]
    /\ nassign' = nassign + 1
    /\ pt_op' = "setattr"
    /\ pt_exc' = "none"
    /\ has_packed' = FALSE
    /\ packed' = << >>
    /\ UNCHANGED <<fmt_vars, hdr_vars, stage, unpacked, orig, nbytes>>

\* pack without the argument unpacking: self.packer.pack(self.unpacked)
pack_result_no_star(pk, unp) == StructPack(pk, << unp >>)

\* Point.pack()
pack_result(pk, unp) == StructPack(pk, unp)

pack ==
    /\ stage \in {"enc", "dec"}
    /\ ~has_packed
    /\ LET r == pack_result(packer, unpacked) IN
          /\ packed' = r.bytes
          /\ has_packed' = (r.exc = "none")
          /\ pt_exc' = r.exc
    /\ pt_op' = "pack"
    /\ UNCHANGED <<fmt_vars, hdr_vars, stage, unpacked, attrs, orig, nassign, nbytes>>


(***************************************************************************)
(* header.py.  A Header instance is its __dict__; attribute reads that     *)
(* find no entry raise AttributeError.  A call result is [exc, val].       *)
(***************************************************************************)
GetAttr(d, n) ==
    IF n \in DOMAIN d THEN [exc |-> "none", val |-> d[n]]
    ELSE [exc |-> "AttributeError", val |-> << >>]

leap_year(year) ==
    IF year % 400 = 0 THEN TRUE
    ELSE IF year % 100 = 0 THEN TRUE
    ELSE IF year % 4 = 0 THEN FALSE
    ELSE FALSE

\* datetime's proleptic Gregorian calendar: a date is <<year, month, day>>
IsGregorianLeap(y) == y % 4 = 0 /\ (y % 100 # 0 \/ y % 400 = 0)

DaysInMonth(y, m) ==
    IF m = 2 THEN (IF IsGregorianLeap(y) THEN 29 ELSE 28)
    ELSE IF m \in {4, 6, 9, 11} THEN 30 ELSE 31

DaysInYear(y) == IF IsGregorianLeap(y) THEN 366 ELSE 365

\* datetime.MINYEAR .. datetime.MAXYEAR
DatetimeYears == 1..9999

RECURSIVE MonthWalk(_, _, _)
MonthWalk(y, m, n) ==
    IF n < DaysInMonth(y, m) THEN <<y, m, n + 1>> ELSE MonthWalk(y, m + 1, n - DaysInMonth(y, m))

RECURSIVE YearWalk(_, _)
YearWalk(y, n) ==
    IF n < 0 THEN YearWalk(y - 1, n + DaysInYear(y - 1))
    ELSE IF n >= DaysInYear(y) THEN YearWalk(y + 1, n - DaysInYear(y))
    ELSE MonthWalk(y, 1, n)

\* datetime.datetime(year, 1, 1) + datetime.timedelta(n)
NewYearPlus(year, n) ==
    IF year \notin DatetimeYears THEN [exc |-> "ValueError", val |-> << >>]
    ELSE LET d == YearWalk(year, n) IN
         IF d[1] \notin DatetimeYears THEN [exc |-> "OverflowError", val |-> << >>]
         ELSE [exc |-> "none", val |-> d]

NoDate == <<0, 0, 0>>

get_date(d) ==
    LET day == GetAttr(d, "CreatedDay")
        year == GetAttr(d, "CreatedYear")
    IN IF day.exc # "none" THEN day
       ELSE IF year.exc # "none" THEN year
       ELSE IF year.val = 0 /\ day.val = 0 THEN [exc |-> "none", val |-> NoDate]
       ELSE IF ~leap_year(year.val) THEN NewYearPlus(year.val, day.val)
       ELSE NewYearPlus(year.val, day.val - 1)

get_majorversion(d) == GetAttr(d, "VersionMajor")

get_minorversion(d) == GetAttr(d, "VersionMinor")

\* '%d.%d' % (major, minor)
get_version(d) ==
    LET major == get_majorversion(d)
        minor == get_minorversion(d)
    IN IF major.exc # "none" THEN major
       ELSE IF minor.exc # "none" THEN minor
       ELSE [exc |-> "none", val |-> ToString(major.val) \o "." \o ToString(minor.val)]

\* [self.<a>, self.<b>, self.<c>], evaluated left to right
ListOf3(d, a, b, c) ==
    LET x == GetAttr(d, a)
        y == GetAttr(d, b)
        z == GetAttr(d, c)
    IN IF x.exc # "none" THEN x
       ELSE IF y.exc # "none" THEN y
       ELSE IF z.exc # "none" THEN z
       ELSE [exc |-> "none", val |-> <<x.val, y.val, z.val>>]

get_scale(d) == ListOf3(d, "XScale", "YScale", "ZScale")

get_offset(d) == ListOf3(d, "XOffset", "YOffset", "ZOffset")

get_min(d) == ListOf3(d, "XMin", "YMin", "ZMin")

get_max(d) == ListOf3(d, "XMax", "YMax", "ZMax")

get_dataformatid(d) == GetAttr(d, "PtDatFormatId")

lenDict == (0 :> 20) @@ (1 :> 28) @@ (2 :> 26) @@ (3 :> 34) @@ (4 :> 57) @@ (5 :> 63)

\* lenDict[self.PtDatFormatID]
get_datarecordlength(d) ==
    LET k == GetAttr(d, "PtDatFormatID") IN
    IF k.exc # "none" THEN k
    ELSE IF k.val \notin DOMAIN lenDict THEN [exc |-> "KeyError", val |-> << >>]
    ELSE [exc |-> "none", val |-> lenDict[k.val]]

(***************************************************************************)
(* Write accessors.  An argument is [kind, str, date]: a str, a float, None,*)
(* a naive or timezone-aware datetime.datetime, or a datetime.date.  A call *)
(* result is [exc, dict], dict being the instance __dict__ afterwards.      *)
(***************************************************************************)
Returns(d) == [exc |-> "none", dict |-> d]

Raises(e, d) == [exc |-> e, dict |-> d]

\* str.split(sep) for a one-character separator
RECURSIVE SplitFrom(_, _, _, _)
SplitFrom(str, sep, i, start) ==
    IF i > Len(str) THEN << SubSeq(str, start, Len(str)) >>
    ELSE IF SubSeq(str, i, i) = sep
    THEN << SubSeq(str, start, i - 1) >> \o SplitFrom(str, sep, i + 1, i + 1)
    ELSE SplitFrom(str, sep, i + 1, start)

Split(str, sep) == SplitFrom(str, sep, 1, 1)

Digits == <<"0", "1", "2", "3", "4", "5", "6", "7", "8", "9">>

DigitValue(c) == (CHOOSE k \in 1..10 : Digits[k] = c) - 1

IsDigit(c) == \E k \in 1..10 : Digits[k] = c

RECURSIVE DigitsValue(_, _, _)
DigitsValue(str, i, acc) ==
    IF i > Len(str) THEN acc
    ELSE DigitsValue(str, i + 1, acc * 10 + DigitValue(SubSeq(str, i, i)))

\* int(str) for a text of an optional sign and decimal digits
PyInt(str) ==
    LET signed == Len(str) > 0 /\ SubSeq(str, 1, 1) \in {"+", "-"}
        body == IF signed THEN SubSeq(str, 2, Len(str)) ELSE str
    IN IF Len(body) = 0 \/ \E i \in 1..Len(body) : ~IsDigit(SubSeq(body, i, i))
       THEN [exc |-> "ValueError", val |-> 0]
       ELSE [exc |-> "none",
             val |-> IF signed /\ SubSeq(str, 1, 1) = "-"
                     THEN 0 - DigitsValue(body, 1, 0) ELSE DigitsValue(body, 1, 0)]

set_filesourceid(d, value) == Returns(d)

set_global_encoding(d, value) == Returns(d)

set_majorversion(d, value) == Returns(d)

set_minorversion(d, value) == Returns(d)

\* major, minor = value.split('.'); the two property assignments follow
set_version(d, value) ==
    IF value.kind # "str" THEN Raises("AttributeError", d)
    ELSE LET parts == Split(value.str, ".") IN
         IF Len(parts) # 2 THEN Raises("ValueError", d)
         ELSE LET major == PyInt(parts[1]) IN
              IF major.exc # "none" THEN Raises(major.exc, d)
              ELSE LET r1 == set_majorversion(d, major.val)
                       minor == PyInt(parts[2])
                   IN IF minor.exc # "none" THEN Raises(minor.exc, r1.dict)
                      ELSE set_minorversion(r1.dict, minor.val)

set_systemid(d, value) == Returns(d)

set_softwareid(d, value) == Returns(d)

\* delta = value - datetime.datetime(value.year, 1, 1); nothing is stored
set_date(d, value) ==
    IF value.kind \notin {"datetime", "aware_datetime", "date"} THEN Raises("AttributeError", d)
    ELSE IF value.kind # "datetime" THEN Raises("TypeError", d)
    ELSE Returns(d)

set_schema(d, value) == Returns(d)

set_scale(d, value) == Returns(d)

set_offset(d, value) == Returns(d)

set_min(d, value) == Returns(d)

set_max(d, value) == Returns(d)

set_vlrs(d, value) == Returns(d)

set_srs(d, value) == Returns(d)

(***************************************************************************)
(* The reader's file: the value stored for every field of the header       *)
(* schema.  reader._ReadWords returns the stored value of the field at     *)
(* the offset the reader was positioned to.                                *)
(***************************************************************************)
VersionSamples == {<<1, 0>>, <<1, 2>>, <<1, 3>>}

\* <<created_year, created_day>>
DateSamples ==
    {<<0, 0>>, <<2008, 79>>, <<2000, 1>>, <<1900, 60>>, <<2011, 365>>, <<2000, 0>>,
     <<0, 5>>, <<2008, 0>>, <<9999, 400>>, <<10000, 1>>, <<65535, 65535>>, <<1, 1>>}

\* values of the pt_dat_format_id byte
PtFormatSamples == {0, 1, 2, 3, 4, 5, 6, 255}

FileValue(name, ver, date, ptfmt) ==
    CASE name = "version_major" -> ver[1]
      [] name = "pt_dat_format_id" -> ptfmt
      [] name = "version_minor" -> ver[2]
      [] name = "created_year" -> date[1]
      [] name = "created_day" -> date[2]
      [] name = "x_scale" -> 1  [] name = "y_scale" -> 2  [] name = "z_scale" -> 3
      [] name = "x_offset" -> 4 [] name = "y_offset" -> 5 [] name = "z_offset" -> 6
      [] name = "x_min" -> 7    [] name = "y_min" -> 8    [] name = "z_min" -> 9
      [] name = "x_max" -> 10   [] name = "y_max" -> 11   [] name = "z_max" -> 12
      [] OTHER -> 0

FileOf(ss, ver, date, ptfmt) ==
    [n \in {ss[i].name : i \in 1..Len(ss)} |-> FileValue(n, ver, date, ptfmt)]

\* Header.read_words(offs, fmt, num, length, compress)
read_words(f, ss, offs) ==
    f[ss[CHOOSE i \in 1..Len(ss) : ss[i].offs = offs].name]

\* Header.__init__: the loop over self.Format.dimensions reading
\* dim.name, dim.offs, dim.fmt, dim.num, dim.length, dim.compress
Header_init_result(f, ss) ==
    LET d0 == ("Format" :> "header_format") @@ ("reader" :> "reader") IN
    IF "dimensions" \notin FormatAttrNames
    THEN [exc |-> "AttributeError", dict |-> d0]
    ELSE IF Len(ss) > 0 /\ ~({"name", "offs", "fmt", "num", "length", "compress"} \subseteq SpecAttrNames)
    THEN [exc |-> "AttributeError", dict |-> d0]
    ELSE [exc |-> "none",
          dict |-> [n \in {ss[i].name : i \in 1..Len(ss)} |->
                       read_words(f, ss, lookup[n].offs)] @@ d0]

NoResult == [op |-> "none", exc |-> "none", val |-> << >>]

NoneArg == [kind |-> "None", str |-> "", date |-> NoDate]

StrArg(str) == [kind |-> "str", str |-> str, date |-> NoDate]

\* arguments of hdr.version = value
VersionArgs ==
    {StrArg("1.2"), StrArg("1.0"), StrArg("1"), StrArg("1.2.3"), StrArg("a.b"), StrArg("1."),
     [kind |-> "float", str |-> "1.2", date |-> NoDate], NoneArg}

\* arguments of hdr.date = value
DateArgs ==
    {[kind |-> "datetime", str |-> "", date |-> <<2008, 3, 19>>],
     [kind |-> "datetime", str |-> "", date |-> <<2000, 12, 31>>],
     [kind |-> "aware_datetime", str |-> "", date |-> <<2008, 3, 19>>],
     [kind |-> "date", str |-> "", date |-> <<2008, 3, 19>>],
     NoneArg}

\* arguments of the accessors that never look at their argument
AnyArgs == {NoneArg, StrArg("LASF")}

HdrInit ==
    /\ hstage = "none"
    /\ file = << >>
    /\ hdr = << >>
    /\ hres = NoResult
    /\ harg = NoneArg

\* Header(reader), reader.header_format being the built header Format
Header_init ==
    /\ pc = "built"
    /\ fmt \in HeaderIds
    /\ stage = "none"
    /\ hstage = "none"
    /\ \E ver \in VersionSamples : \E date \in DateSamples : \E ptfmt \in PtFormatSamples :
          \* the files differ from the one of version 1.2, day 79 of 2008 and
          \* point format 0 in one of the three
          /\ \/ ver = <<1, 2>> /\ ptfmt = 0
             \/ date = <<2008, 79>> /\ ptfmt = 0
             \/ ver = <<1, 2>> /\ date = <<2008, 79>>
          /\ LET f == FileOf(specs, ver, date, ptfmt)
                 r == Header_init_result(f, specs)
             IN /\ file' = f
                /\ hdr' = r.dict
                /\ hstage' = IF r.exc = "none" THEN "built" ELSE "failed"
                /\ hres' = [op |-> "__init__", exc |-> r.exc, val |-> << >>]
                /\ harg' = NoneArg
    /\ UNCHANGED <<fmt_vars, pt_vars>>

\* a read accessor called on the instance as __init__ left it
Getter(op, r) ==
    /\ hstage # "none"
    /\ hres' = [op |-> op, exc |-> r.exc, val |-> r.val]
    /\ harg' = NoneArg
    /\ UNCHANGED <<fmt_vars, pt_vars, hstage, file, hdr>>

Header_get_version == Getter("get_version", get_version(hdr))

Header_get_scale == Getter("get_scale", get_scale(hdr))

Header_get_offset == Getter("get_offset", get_offset(hdr))

Header_get_min == Getter("get_min", get_min(hdr))

Header_get_max == Getter("get_max", get_max(hdr))

Header_get_date == Getter("get_date", get_date(hdr))

Header_get_dataformatid == Getter("get_dataformatid", get_dataformatid(hdr))

Header_get_datarecordlength == Getter("get_datarecordlength", get_datarecordlength(hdr))

\* a write accessor called on the instance as __init__ left it
Setter(op, value, r) ==
    /\ hstage # "none"
    /\ hres' = [op |-> op, exc |-> r.exc, val |-> << >>]
    /\ harg' = value
    /\ hdr' = r.dict
    /\ UNCHANGED <<fmt_vars, pt_vars, hstage, file>>

Header_set_version == \E v \in VersionArgs : Setter("set_version", v, set_version(hdr, v))

Header_set_date == \E v \in DateArgs : Setter("set_date", v, set_date(hdr, v))

Header_set_scale == \E v \in AnyArgs : Setter("set_scale", v, set_scale(hdr, v))

Header_set_offset == \E v \in AnyArgs : Setter("set_offset", v, set_offset(hdr, v))

Header_set_min == \E v \in AnyArgs : Setter("set_min", v, set_min(hdr, v))

Header_set_max == \E v \in AnyArgs : Setter("set_max", v, set_max(hdr, v))

Header_set_systemid == \E v \in AnyArgs : Setter("set_systemid", v, set_systemid(hdr, v))

Header_set_softwareid == \E v \in AnyArgs : Setter("set_softwareid", v, set_softwareid(hdr, v))

Header_set_filesourceid ==
    \E v \in AnyArgs : Setter("set_filesourceid", v, set_filesourceid(hdr, v))

Header_set_global_encoding ==
    \E v \in AnyArgs : Setter("set_global_encoding", v, set_global_encoding(hdr, v))

Header_set_vlrs == \E v \in AnyArgs : Setter("set_vlrs", v, set_vlrs(hdr, v))

Header_set_srs == \E v \in AnyArgs : Setter("set_srs", v, set_srs(hdr, v))

Header_set_schema == \E v \in AnyArgs : Setter("set_schema", v, set_schema(hdr, v))

(***************************************************************************)
(* Properties.                                                             *)
(***************************************************************************)
FieldNames(ss) == [i \in 1..Len(ss) |-> ss[i].name]

FieldIndex(ss, name) == CHOOSE i \in 1..Len(ss) : ss[i].name = name

\* (byte >> low) & ((1 << width) - 1)
Bits(byte, low, width) == (byte \div Pow2(low)) % Pow2(width)

\* C1: a Format constructed with point-format identifier 0, 1, 2, 3, 4, 5 has
\* rec_len 20, 28, 26, 34, 57, 63 respectively.
C1_RecordLength ==
    pc = "built" /\ fmt \in PointIds =>
        rec_len = (CASE fmt = "0" -> 20 [] fmt = "1" -> 28 [] fmt = "2" -> 26
                     [] fmt = "3" -> 34 [] fmt = "4" -> 57 [] fmt = "5" -> 63)

C1_Witness == pc = "built" /\ fmt = "5" /\ rec_len = 63 /\ Len(specs) = 20

\* C2: in a constructed Format (and at every step of its construction) the
\* first field has offset 0 and each later field starts where the previous one
\* ends: offset[i] = offset[i-1] + element size * element count of field i-1,
\* so offsets strictly increase without gaps.
C2_Offsets ==
    \A i \in 1..Len(specs) :
        /\ i = 1 => specs[i].offs = 0
        /\ i > 1 => /\ specs[i].offs = specs[i - 1].offs + specs[i - 1].length * specs[i - 1].num
                    /\ specs[i].offs > specs[i - 1].offs

C2_Witness ==
    /\ pc = "built"
    /\ fmt = "VLR"
    /\ specs[2].num = 16
    /\ specs[3].offs = 18
    /\ specs[5].offs = 22

C3_Format0 ==
    << "X", "Y", "Z", "intensity", "flag_byte", "raw_classification",
       "scan_angle_rank", "user_data", "pt_src_id" >>

C3_Format1 == C3_Format0 \o << "gps_time" >>

C3_Format2 == C3_Format0 \o << "red", "green", "blue" >>

C3_Format3 == C3_Format1 \o << "red", "green", "blue" >>

C3_Waveform ==
    << "wave_packet_descp_idx", "byte_offset_to_wavefm_data", "wavefm_pkt_size",
       "return_pt_wavefm_loc", "x_t", "y_t", "z_t" >>

C3_Format4 == C3_Format1 \o C3_Waveform

C3_Format5 == C3_Format3 \o C3_Waveform

\* C3: the ordered field list of each point format is the one the layout table
\* gives: format 0 the nine base fields, 1 = 0 + gps_time, 2 = 0 + red, green,
\* blue, 3 = 1 + red, green, blue, 4 = 1 + the seven waveform fields, 5 = 3 + the
\* seven waveform fields; format 0's list is a prefix of every point format's.
C3_FieldOrder ==
    pc = "built" /\ fmt \in PointIds =>
        /\ FieldNames(specs) =
              (CASE fmt = "0" -> C3_Format0 [] fmt = "1" -> C3_Format1
                 [] fmt = "2" -> C3_Format2 [] fmt = "3" -> C3_Format3
                 [] fmt = "4" -> C3_Format4 [] fmt = "5" -> C3_Format5)
        /\ SubSeq(FieldNames(specs), 1, 9) = C3_Format0

C3_Witness ==
    /\ pc = "built"
    /\ fmt = "5"
    /\ specs[10].name = "gps_time"
    /\ specs[11].name = "red"
    /\ specs[14].name = "wave_packet_descp_idx"
    /\ specs[20].name = "z_t"

\* a value is within the range of an element type: an unsigned integer of the
\* type's width, one character, a finite double, a finite double no larger in
\* magnitude than the largest 32-bit float
InElementRange(f, v) ==
    CASE f \in {"<B", "<H", "<L", "<Q"} -> FitsBytes(v, fmtLen(f))
      [] f = "<s" -> Len(v) = 1
      [] f = "<d" -> v.e < 2047
      [] f = "<f" -> v.e <= 1023 + 127

\* a value is exactly a value of the element type: as above, and for a 32-bit
\* float a double that is a 32-bit float value (24 significant bits, fewer in
\* the subnormal range)
ExactInElement(f, v) ==
    /\ InElementRange(f, v)
    /\ f = "<f" =>
          /\ v.lo = 0
          /\ \/ v.e = 0 /\ v.hi = 0
             \/ v.e >= 1023 - 126
             \/ /\ v.e >= 1023 - 149
                /\ v.hi % Pow2(1023 - 126 - v.e) = 0

InRangeSeq(vals) ==
    /\ Len(vals) = Len(specs)
    /\ \A i \in 1..Len(specs) : InElementRange(specs[i].fmt, vals[i])

ExactSeq(vals) ==
    /\ Len(vals) = Len(specs)
    /\ \A i \in 1..Len(specs) : ExactInElement(specs[i].fmt, vals[i])

C5_Expand ==
    stage \in {"enc", "dec"} /\ Expanded =>
        LET fb == unpacked[FieldIndex(specs, "flag_byte")]
            rc == unpacked[FieldIndex(specs, "raw_classification")]
        IN /\ \A i \in 1..Len(specs) : attrs[specs[i].name] = unpacked[i]
           /\ attrs["return_num"] = Bits(fb, 0, 3)
           /\ attrs["num_returns"] = Bits(fb, 3, 3)
           /\ attrs["scan_dir_flag"] = Bits(fb, 6, 1)
           /\ attrs["edge_flight_line"] = Bits(fb, 7, 1)
           /\ attrs["classification"] = Bits(rc, 0, 5)
           /\ attrs["synthetic"] = Bits(rc, 5, 1)
           /\ attrs["key_point"] = Bits(rc, 6, 1)
           /\ attrs["withheld"] = Bits(rc, 7, 1)

C5_Witness ==
    /\ stage = "dec"
    /\ Expanded
    /\ pt_op = "make_nice"
    /\ attrs["flag_byte"] = 173
    /\ attrs["return_num"] = 5
    /\ attrs["num_returns"] = 5
    /\ attrs["scan_dir_flag"] = 0
    /\ attrs["edge_flight_line"] = 1
    /\ attrs["raw_classification"] = 82
    /\ attrs["classification"] = 18
    /\ attrs["key_point"] = 1

\* C6: for every byte b, putting the four sub-fields extracted from the flag
\* byte b back into their bit ranges gives b, and likewise for the four
\* sub-fields of the raw classification byte.
C6_BitRoundTrip ==
    stage \in {"enc", "dec"} /\ Expanded =>
        /\ attrs["return_num"] + 8 * attrs["num_returns"] + 64 * attrs["scan_dir_flag"]
              + 128 * attrs["edge_flight_line"] = attrs["flag_byte"]
        /\ attrs["classification"] + 32 * attrs["synthetic"] + 64 * attrs["key_point"]
              + 128 * attrs["withheld"] = attrs["raw_classification"]

C6_Witness ==
    /\ stage = "dec"
    /\ Expanded
    /\ attrs["flag_byte"] = 255
    /\ attrs["raw_classification"] = 0
    /\ attrs["num_returns"] = 7
    /\ attrs["edge_flight_line"] = 1
    /\ attrs["withheld"] = 0

\* C7: pack() on an expanded point serialises the flag byte and the raw
\* classification byte reassembled from the current sub-field values, so the
\* bytes carry a sub-field changed after make_nice().
C7_PackReassembles ==
    stage = "enc" /\ Expanded /\ has_packed =>
        /\ packed[lookup["flag_byte"].offs + 1] =
              attrs["return_num"] + 8 * attrs["num_returns"]
              + 64 * attrs["scan_dir_flag"] + 128 * attrs["edge_flight_line"]
        /\ packed[lookup["raw_classification"].offs + 1] =
              attrs["classification"] + 32 * attrs["synthetic"]
              + 64 * attrs["key_point"] + 128 * attrs["withheld"]

\* the date the claim gives for a stored (year, day) pair
C8_ClaimedDate(year, day) ==
    IF year = 0 /\ day = 0 THEN NoDate
    ELSE IF year = 2008 /\ day = 79 THEN <<2008, 3, 20>>
    ELSE YearWalk(year, IF leap_year(year) THEN day - 1 ELSE day)

\* C8: get_date returns no date exactly when created_year = 0 and created_day =
\* 0, and for every other pair of 16-bit values January 1 of created_year plus
\* created_day days (created_day - 1 in a leap year of the source's predicate);
\* year 2008, day 79 gives 2008-03-20.
C8_CreatedDate ==
    hres.op = "get_date" =>
        /\ hres.exc = "none"
        /\ hres.val = C8_ClaimedDate(file["created_year"], file["created_day"])

\* C9: version() returns "<major>.<minor>" of the stored version_major and
\* version_minor fields; "1.2" for 1 and 2.
C9_Version ==
    hres.op = "get_version" =>
        /\ hres.exc = "none"
        /\ hres.val = ToString(file["version_major"]) \o "." \o ToString(file["version_minor"])

\* C10: scale(), offset(), min() and max() each return [x, y, z] of the three
\* stored fields x_*, y_*, z_* of that kind.
C10_Triples ==
    /\ hres.op = "get_scale" =>
          hres.exc = "none" /\ hres.val = <<file["x_scale"], file["y_scale"], file["z_scale"]>>
    /\ hres.op = "get_offset" =>
          hres.exc = "none" /\ hres.val = <<file["x_offset"], file["y_offset"], file["z_offset"]>>
    /\ hres.op = "get_min" =>
          hres.exc = "none" /\ hres.val = <<file["x_min"], file["y_min"], file["z_min"]>>
    /\ hres.op = "get_max" =>
          hres.exc = "none" /\ hres.val = <<file["x_max"], file["y_max"], file["z_max"]>>

\* C11: point_record_length returns 20, 28, 26, 34, 57, 63 for a header whose
\* point-format-id field is 0..5, reading the field get_dataformatid reads,
\* and fails for any other id.
C11_RecordLengthTable ==
    hres.op = "get_datarecordlength" =>
        LET k == file["pt_dat_format_id"] IN
        IF k \in 0..5
        THEN hres.exc = "none" /\ hres.val = <<20, 28, 26, 34, 57, 63>>[k + 1]
        ELSE hres.exc # "none"

WriteAccessors ==
    {"set_version", "set_date", "set_scale", "set_offset", "set_min", "set_max",
     "set_systemid", "set_softwareid", "set_filesourceid", "set_global_encoding",
     "set_vlrs", "set_srs", "set_schema"}

\* C12: every header write accessor is inert: whatever the header state and
\* the argument, the call raises no error and leaves every stored field, and
\* so every getter result, unchanged.
C12_SettersInert ==
    [][hres'.op \in WriteAccessors => hres'.exc = "none" /\ hdr' = hdr /\ file' = file]_vars

\* C14: decoding a byte block shorter than the schema's record length fails
\* and yields no value sequence; decoding a block of exactly record_length
\* bytes succeeds.
C14_ShortBlock ==
    pt_op = "__init__" /\ nbytes >= 0 =>
        /\ nbytes < rec_len => pt_exc = "struct.error" /\ unpacked = << >>
        /\ nbytes = rec_len => pt_exc # "struct.error" /\ Len(unpacked) = Len(specs)

\* C13: constructing a schema with an identifier outside the closed set
\* fails with the unknown-format error before any field is appended, and
\* every identifier inside the set constructs without error.
C13_UnknownFormat ==
    LET closed == {"0", "1", "2", "3", "4", "5", "VLR", "h1.0", "h1.1", "h1.2", "h1.3"} IN
    /\ fmt \notin closed /\ pc # "new" =>
          /\ pc = "failed"
          /\ fmt_exc = "LaspyException"
          /\ specs = << >>
          /\ rec_len = 0
          /\ lookup = << >>
    /\ fmt \in closed => pc \in {"new", "adding", "built"} /\ fmt_exc = "none"
    /\ fmt \in closed /\ pc = "built" => Len(specs) > 0

C13_Witness ==
    /\ fmt = "9"
    /\ pc = "failed"
    /\ fmt_exc = "LaspyException"
    /\ specs = << >>

\* C15: a schema is frozen after construction: whatever operations follow on
\* a constructed Format, its field list, record length, composite format
\* string, name lookup and packer keep the values construction gave them.
C15_Frozen ==
    [][pc = "built" =>
          /\ pc' = "built"
          /\ specs' = specs
          /\ rec_len' = rec_len
          /\ pt_fmt_long' = pt_fmt_long
          /\ lookup' = lookup
          /\ packer' = packer]_vars

\* C16: a field's default is decided by its element type alone: numeric zero
\* for every numeric element type, the unsigned 8-bit type included (one zero
\* per element when the count is above one), and count blanks for text.
C16_Defaults ==
    \A i \in 1..Len(specs) :
        LET sp == specs[i] IN
        IF sp.Format = "c_char"
        THEN sp.default.type = "str" /\ sp.default.val = Repeat(" ", sp.num)
        ELSE /\ sp.default.type \in {"int", "float", "list_int", "list_float"}
             /\ sp.default.val \in {"0", "0.0"}

\* C17: no field spec with an element count of zero or less, and so none of
\* byte length zero or less, is ever produced or appended to a schema.
C17_PositiveCount ==
    \A i \in 1..Len(specs) : specs[i].num > 0 /\ specs[i].num * specs[i].length > 0

\* the fields of a header up to the points-by-return field: <<name, type, count>>
C18_Head ==
    << <<"file_sig", "c_char", 4>>, <<"file_src", "c_ushort", 1>>,
       <<"global_encoding", "c_ushort", 1>>, <<"proj_id_1", "c_long", 1>>,
       <<"proj_id_2", "c_ushort", 1>>, <<"proj_id_3", "c_ushort", 1>>,
       <<"proj_id_4", "c_ubyte", 8>>, <<"version_major", "c_ubyte", 1>>,
       <<"version_minor", "c_ubyte", 1>>, <<"sys_id", "c_char", 32>>,
       <<"gen_soft", "c_char", 32>>, <<"created_day", "c_ushort", 1>>,
       <<"created_year", "c_ushort", 1>>, <<"header_size", "c_ushort", 1>>,
       <<"offset_to_point_data", "c_long", 1>>, <<"num_variable_len_recs", "c_long", 1>>,
       <<"pt_dat_format_id", "c_ubyte", 1>>, <<"pt_dat_rec_len", "c_ushort", 1>>,
       <<"num_pt_recs", "c_long", 1>> >>

\* the fields after points-by-return, in stored order
C18_Tail ==
    << "x_scale", "y_scale", "z_scale", "x_offset", "y_offset", "z_offset",
       "x_max", "x_min", "y_max", "y_min", "z_max", "z_min" >>

\* C18: in every header schema the points-by-return field has 5 unsigned
\* 32-bit elements for 1.0-1.2 and 7 for 1.3 and is followed by the scale
\* fields, the offset fields and the extents stored max before min per axis;
\* h1.0, h1.1 and h1.2 have one and the same field list, and every field after
\* points-by-return lies 8 bytes later in h1.3.
C18_HeaderLayout ==
    pc = "built" /\ fmt \in {"h1.0", "h1.1", "h1.2", "h1.3"} =>
        LET n == Len(C18_Head)
            count == IF fmt = "h1.3" THEN 7 ELSE 5
            first == IF fmt = "h1.3" THEN 139 ELSE 131
            byret == specs[n + 1]
        IN /\ Len(specs) = n + 1 + Len(C18_Tail)
           /\ \A i \in 1..n :
                 <<specs[i].name, specs[i].Format, specs[i].num>> = C18_Head[i]
           /\ byret.name = "num_pts_by_return"
           /\ byret.fmt = "<L" /\ byret.length = 4 /\ byret.num = count
           /\ byret.offs = 111
           /\ \A j \in 1..Len(C18_Tail) :
                 LET sp == specs[n + 1 + j] IN
                 /\ sp.name = C18_Tail[j]
                 /\ sp.Format = "c_double" /\ sp.num = 1
                 /\ sp.offs = first + 8 * (j - 1)

C18_Witness ==
    /\ pc = "built"
    /\ fmt = "h1.3"
    /\ lookup["num_pts_by_return"].num = 7
    /\ lookup["x_max"].offs = 187
    /\ lookup["x_min"].offs = 195

\* C19: decode and expand are all-or-nothing: a Point the caller holds has
\* either no named value at all or every field name and every bit sub-field;
\* make_nice() on a value list shorter than the field list leaves no name
\* assigned while others are missing.  Stated for the point schemas, the
\* ones that have the two composite bytes.
C19_AllOrNothing ==
    stage \in {"enc", "dec"} /\ fmt \in PointIds =>
        \/ DOMAIN attrs = {}
        \/ DOMAIN attrs = {specs[i].name : i \in 1..Len(specs)} \cup SubFieldNames

\* C20: constructing a Header over a reader whose header_format is a Format
\* built for h1.0..h1.3 succeeds and stores, under every field's name, the
\* value read from the reader at that field's offset; every attribute the
\* Header reads from a field spec is one the spec defines.
C20_HeaderConstructs ==
    hstage # "none" =>
        /\ hstage = "built"
        /\ hres.op = "__init__" => hres.exc = "none"
        /\ \A i \in 1..Len(specs) :
              /\ specs[i].name \in DOMAIN hdr
              /\ hdr[specs[i].name] = file[specs[i].name]
        /\ {"name", "offs", "fmt", "num", "length", "compress"} \subseteq SpecAttrNames

\* C21: for every identifier of the closed set the number of bytes the
\* schema's composite packer consumes and produces equals the record length,
\* the multi-element fields of the VLR and header schemas included.
C21_PackerSize ==
    pc = "built" => StructSize(packer) = rec_len

Init == FmtInit /\ PtInit /\ HdrInit

Next ==
    \/ Format_init
    \/ add
    \/ Format_finish
    \/ Point_from_list
    \/ Point_from_block
    \/ Point_from_short_list
    \/ Point_from_nothing
    \/ Point_from_bytes
    \/ make_nice
    \/ SetAttr
    \/ pack
    \/ Header_init
    \/ Header_get_version
    \/ Header_get_scale
    \/ Header_get_offset
    \/ Header_get_min
    \/ Header_get_max
    \/ Header_get_date
    \/ Header_get_dataformatid
    \/ Header_get_datarecordlength
    \/ Header_set_version
    \/ Header_set_date
    \/ Header_set_scale
    \/ Header_set_offset
    \/ Header_set_min
    \/ Header_set_max
    \/ Header_set_systemid
    \/ Header_set_softwareid
    \/ Header_set_filesourceid
    \/ Header_set_global_encoding
    \/ Header_set_vlrs
    \/ Header_set_srs
    \/ Header_set_schema

\* the byte sweep: records holding every value of the two composite bytes,
\* decoded and expanded
NextBytes ==
    \/ Format_init
    \/ add
    \/ Format_finish
    \/ Point_from_record
    \/ make_nice

SpecBytes == Init /\ [][NextBytes]_vars

\* the schema with its public add method open to the client
NextOpen ==
    \/ Format_init
    \/ add
    \/ Format_finish
    \/ Format_add

SpecOpen == Init /\ [][NextOpen]_vars

Spec == Init /\ [][Next]_vars

====
